---- MODULE Spec2Model ----
(***************************************************************************)
(* A model of salva's IISPH pressure solver (src/solver/pressure/          *)
(* iisph_solver.rs): the solver's buffers, the stages of step() and the    *)
(* pressure relaxation loop with its per-particle tasks (Spec); of the     *)
(* TimestepManager (src/timestep_manager.rs) under any sequence of calls   *)
(* (TimestepSpec); and of the ArtificialViscosity force module             *)
(* (src/solver/viscosity/artificial_viscosity.rs) called on a scene of two *)
(* fluids and a boundary (ViscositySpec).                                  *)
(*                                                                         *)
(* The scalar type N (a RealField) is modelled as fixed-point numbers: an  *)
(* integer x stands for x / One.  Vector<N> is modelled as a pair <<x, y>>.*)
(* Vec<..> buffers are sequences, indexed from 1 where the code indexes    *)
(* from 0.                                                                 *)
(***************************************************************************)
EXTENDS Integers, Sequences, FiniteSets, TLC

----------------------------------------------------------------------------
(* The scalar field N *)

One == 100

Zero == 0

Abs(x) == IF x < 0 THEN -x ELSE x

Max(a, b) == IF a >= b THEN a ELSE b

\* a * b in N (rounded toward zero)
Mul(a, b) ==
    LET p == a * b
    IN  IF p >= 0 THEN p \div One ELSE -((-p) \div One)

\* a / b in N (rounded toward zero); every divisor of the solver is nonzero
\* where the code divides (asserted or guarded), 0 stands for the other case
Div(a, b) ==
    LET p == a * One
    IN  IF b = 0 THEN 0
        ELSE IF (p >= 0) = (b > 0) THEN Abs(p) \div Abs(b)
        ELSE -(Abs(p) \div Abs(b))

\* na::convert of a decimal literal num / den
Convert(num, den) == (num * One) \div den

----------------------------------------------------------------------------
(* Vector<N> *)

VZero == <<0, 0>>

VAdd(u, v) == <<u[1] + v[1], u[2] + v[2]>>

VSub(u, v) == <<u[1] - v[1], u[2] - v[2]>>

VScale(v, s) == <<Mul(v[1], s), Mul(v[2], s)>>

Dot(u, v) == Mul(u[1], v[1]) + Mul(u[2], v[2])

RECURSIVE SumN(_)
SumN(s) == IF s = <<>> THEN 0 ELSE Head(s) + SumN(Tail(s))

RECURSIVE SumV(_)
SumV(s) == IF s = <<>> THEN VZero ELSE VAdd(Head(s), SumV(Tail(s)))

RECURSIVE Flatten(_)
Flatten(ss) == IF ss = <<>> THEN <<>> ELSE Head(ss) \o Flatten(Tail(ss))

----------------------------------------------------------------------------
(* Collaborators of the solver: kernels, fluids, contact manager *)

\* Kernel::points_apply: a kernel of support radius h, W = h^2 - r^2 inside
KernelDensity_points_apply(pi, pj, h) ==
    LET d == VSub(pi, pj)
        r2 == Dot(d, d)
        h2 == Mul(h, h)
    IN  IF r2 < h2 THEN h2 - r2 ELSE Zero

\* Kernel::points_apply_diff1: the gradient of the kernel with respect to pi
KernelGradient_points_apply_diff1(pi, pj, h) ==
    LET d == VSub(pi, pj)
        r2 == Dot(d, d)
        h2 == Mul(h, h)
    IN  IF r2 < h2 THEN VScale(d, -2 * One) ELSE VZero

\* Fluid::num_particles
num_particles(model) == Len(model.positions)

\* Fluid::particle_mass
particle_mass(fluid, i) == Mul(fluid.volumes[i], fluid.density0)

\* Contact::new: a contact whose weight and gradient are not yet computed
NewContact(im, i, jm, j) ==
    [i_model |-> im, i |-> i, j_model |-> jm, j |-> j,
     weight |-> Zero, gradient |-> VZero]

\* all particles of a list of models, as <<model, index>> pairs, in order
AllParticles(models) ==
    Flatten([m \in 1..Len(models) |->
                [j \in 1..num_particles(models[m]) |-> <<m, j>>]])

InRange(pi, pj, h) ==
    LET d == VSub(pi, pj) IN Dot(d, d) < Mul(h, h)

\* the contacts of particle i of models1[im] with the particles of models2
\* within the support radius (the particle itself only when with_self)
FindContacts(models1, im, i, models2, same, with_self, h) ==
    LET near(t) ==
            /\ InRange(models1[im].positions[i], models2[t[1]].positions[t[2]], h)
            /\ (same /\ t = <<im, i>>) => with_self
        sel == SelectSeq(AllParticles(models2), near)
    IN  [k \in 1..Len(sel) |-> NewContact(im, i, sel[k][1], sel[k][2])]

\* ParticlesContacts of every model of models1 against models2
ComputeContacts(models1, models2, same, with_self, h) ==
    [im \in 1..Len(models1) |->
        [i \in 1..num_particles(models1[im]) |->
            FindContacts(models1, im, i, models2, same, with_self, h)]]

----------------------------------------------------------------------------
(* IISPHSolver::new: the configuration *)

min_pressure_iter == 1

max_pressure_iter == 50

max_density_error == Convert(5, 100)

omega == Convert(5, 10)

\* the threshold of |aii| in compute_next_pressures
AiiEps == Convert(1, 1000000000)

----------------------------------------------------------------------------
(* TimestepManager (src/timestep_manager.rs) *)

\* N::default_epsilon(): the gap between One and the next number of N
default_epsilon == 1

\* TimestepManager::new
TimestepManager_new(particle_radius) ==
    [cfl_coeff |-> Convert(4, 10),
     min_num_substeps |-> 1,
     max_num_substeps |-> 10,
     particle_radius |-> particle_radius,
     dt |-> Zero,
     inv_dt |-> Zero,
     total_step_size |-> Zero,
     remaining_time |-> Zero]

\* TimestepManager::reset
reset_of(tm, total_step_size) ==
    [tm EXCEPT !.total_step_size = total_step_size,
               !.remaining_time = total_step_size]

\* TimestepManager::is_done
is_done(tm) == tm.remaining_time <= default_epsilon

\* TimestepManager::compute_substep: it returns before it looks at the fluids
compute_substep(tm, fluid_models) == tm.total_step_size

\* the remaining time advance() leaves, had it subtracted the substep it hands out
remaining_after_advance_new_dt(tm, substep) == tm.remaining_time - substep

\* the remaining time advance() leaves: self.remaining_time -= self.dt
remaining_after_advance(tm, substep) == tm.remaining_time - tm.dt

\* TimestepManager::advance
advance_of(tm, fluid_models) ==
    LET substep == compute_substep(tm, fluid_models)
    IN  [tm EXCEPT !.remaining_time = remaining_after_advance(tm, substep),
                   !.dt = substep,
                   !.inv_dt = IF substep = Zero THEN Zero ELSE Div(One, substep)]

----------------------------------------------------------------------------
(* Bounds of the model and the inputs it draws from *)

\* number of calls of step() in a behaviour
MaxSteps == 2

\* calls of reset() on the TimestepManager in a behaviour
MaxResets == 3

\* calls of advance() between two calls of reset()
MaxAdvances == 3

\* the outer step sizes reset() is called with
StepSizes == {Zero, default_epsilon, Convert(1, 2), One}

kernel_radius == One

particle_radius == Convert(1, 4)

DtSet == {One}

GravitySet == {<<0, -20>>}

VelocitySet == {<<0, 0>>, <<0, -30>>, <<0, 120>>}

Fluid1Positions == {<<(<<0, 50>>), (<<50, 50>>)>>, <<(<<0, 50>>), (<<300, 50>>)>>}

Fluid2Positions == {<<(<<100, 50>>)>>, <<(<<-300, 50>>)>>, <<>>}

BoundaryPositions == {<<(<<0, 0>>), (<<50, 0>>)>>, <<(<<0, 0>>), (<<0, -300>>)>>}

Density0Set == {One, 2 * One}

ParticleVolume == Convert(2, 10)

\* calls made on the ArtificialViscosity module in a behaviour
MaxViscosityCalls == 2

\* the coefficients ArtificialViscosity::new is given
ViscosityCoefficients == {Zero, Convert(1, 2)}

\* the velocity of the first particle of the first fluid, the accelerations and
\* the densities the module is called with
ViscosityVelocities == {<<0, 0>>, <<30, 0>>, <<0, -30>>, <<-30, 30>>}

AccelerationSet == {<<0, 0>>, <<0, -20>>}

DensitySet == {One, Convert(1, 2)}

\* a non-pressure force module: pushes every particle by accel * dt
ForceModule(accel) == [accel |-> accel, calls |-> 0]

----------------------------------------------------------------------------
VARIABLES
    fluids,               \* &mut [Fluid<N>]
    boundaries,           \* &[Boundary<N>]
    contact_manager,      \* &mut ContactManager<N>
    with_self,            \* whether the contact manager lists a particle as its own contact
    densities, aii, dii, dij_pjl, pressures, next_pressures,
    predicted_densities, boundaries_volumes, velocity_changes,
    dt,                   \* the dt argument of predict_advection and step
    pc,                   \* the stage step() is at ("idle" outside step)
    loop_i,               \* the loop index i of pressure_solve
    fluid_id,             \* the fluid the running fan-out works on
    done,                 \* the particles whose task of the running fan-out has finished
    it,                   \* the values the mapped iterator of compute_next_pressures yields
    max_error,            \* max_error of compute_next_pressures
    avg_err,              \* avg_err of pressure_solve
    steps,                \* calls of step() that have returned
    entry,                \* the fluids as they were when step() was entered
    timestep_manager,     \* the TimestepManager: dt, inv_dt, total_step_size, remaining_time
    calls,                \* the calls made on the TimestepManager so far
    artificial_viscosity, \* the ArtificialViscosity module: its parameters
    viscosity_calls       \* the calls made on the ArtificialViscosity module so far

vars == <<fluids, boundaries, contact_manager, with_self, densities, aii, dii,
          dij_pjl, pressures, next_pressures, predicted_densities,
          boundaries_volumes, velocity_changes, dt, pc, loop_i, fluid_id, done,
          it, max_error, avg_err, steps, entry, timestep_manager, calls,
          artificial_viscosity, viscosity_calls>>

solver_buffers == <<densities, aii, dii, dij_pjl, pressures, next_pressures,
                    predicted_densities, boundaries_volumes, velocity_changes>>

loop_vars == <<loop_i, fluid_id, done, it, max_error, avg_err>>

world == <<fluids, boundaries, contact_manager, with_self, dt, entry>>

\* what step() and the caller's advection never touch
collaborators == <<timestep_manager, calls, artificial_viscosity, viscosity_calls>>

FluidIds == 1..Len(fluids)

Particles(f) == 1..num_particles(fluids[f])

\* a buffer with one slot per particle of every model, every slot holding v
Resized(models, v) ==
    [m \in 1..Len(models) |-> [j \in 1..num_particles(models[m]) |-> v]]

fluid_fluid_contacts == contact_manager.fluid_fluid_contacts

fluid_boundary_contacts == contact_manager.fluid_boundary_contacts

boundary_boundary_contacts == contact_manager.boundary_boundary_contacts

\* no call made on the TimestepManager yet
NoCalls == [resets |-> 0, advances |-> 0, last |-> "new"]

\* no call made on the ArtificialViscosity module yet
NoViscosityCalls == [count |-> 0, last |-> "new", fluid |-> 0]

\* ArtificialViscosity::new
ArtificialViscosity_new(fluid_viscosity_coefficient, boundary_viscosity_coefficient) ==
    [alpha |-> One,
     beta |-> Convert(0, 1),
     speed_of_sound |-> Convert(10, 1),
     fluid_viscosity_coefficient |-> fluid_viscosity_coefficient,
     boundary_viscosity_coefficient |-> boundary_viscosity_coefficient]

\* new(), then init_with_fluids and init_with_boundaries on the models of the scene
Init ==
    /\ \E ps1 \in Fluid1Positions, ps2 \in Fluid2Positions,
          v1 \in VelocitySet, v2 \in VelocitySet, d2 \in Density0Set :
        fluids = <<[positions |-> ps1,
                    velocities |-> [j \in 1..Len(ps1) |-> v1],
                    volumes |-> [j \in 1..Len(ps1) |-> ParticleVolume],
                    density0 |-> One,
                    nonpressure_forces |-> <<ForceModule(<<10, 0>>), ForceModule(<<0, -10>>)>>],
                   [positions |-> ps2,
                    velocities |-> [j \in 1..Len(ps2) |-> v2],
                    volumes |-> [j \in 1..Len(ps2) |-> ParticleVolume],
                    density0 |-> d2,
                    nonpressure_forces |-> <<>>]>>
    /\ \E bs \in BoundaryPositions :
        boundaries = <<[positions |-> bs,
                        velocities |-> [j \in 1..Len(bs) |-> VZero],
                        volumes |-> [j \in 1..Len(bs) |-> Zero]]>>
    /\ with_self \in BOOLEAN
    /\ dt \in DtSet
    /\ contact_manager = [fluid_fluid_contacts |-> Resized(fluids, <<>>),
                          fluid_boundary_contacts |-> Resized(fluids, <<>>),
                          boundary_boundary_contacts |-> Resized(boundaries, <<>>)]
    /\ densities = Resized(fluids, Zero)
    /\ predicted_densities = Resized(fluids, Zero)
    /\ velocity_changes = Resized(fluids, VZero)
    /\ aii = Resized(fluids, Zero)
    /\ dii = Resized(fluids, VZero)
    /\ dij_pjl = Resized(fluids, VZero)
    /\ pressures = Resized(fluids, Zero)
    /\ next_pressures = Resized(fluids, Zero)
    /\ boundaries_volumes = Resized(boundaries, Zero)
    /\ pc = "idle"
    /\ loop_i = 0
    /\ fluid_id = 1
    /\ done = {}
    /\ it = <<>>
    /\ max_error = Zero
    /\ avg_err = Zero
    /\ steps = 0
    /\ entry = fluids
    /\ timestep_manager = TimestepManager_new(particle_radius)
    /\ calls = NoCalls
    /\ artificial_viscosity = ArtificialViscosity_new(Zero, Zero)
    /\ viscosity_calls = NoViscosityCalls

----------------------------------------------------------------------------
(* Between two steps *)

\* predict_advection: *velocity_change += gravity * dt
predict_advection(gravity) ==
    /\ pc = "idle"
    /\ steps < MaxSteps
    /\ velocity_changes' =
          [f \in FluidIds |-> [j \in Particles(f) |->
              VAdd(velocity_changes[f][j], VScale(gravity, dt))]]
    /\ pc' = "advected"
    /\ UNCHANGED collaborators
    /\ UNCHANGED <<world, loop_vars, steps, densities, aii, dii, dij_pjl, pressures,
                   next_pressures, predicted_densities, boundaries_volumes>>

\* the caller rebuilds the contact lists from the current positions and calls step()
call_step ==
    /\ pc \in {"idle", "advected"}
    /\ steps < MaxSteps
    /\ contact_manager' =
          [fluid_fluid_contacts |->
               ComputeContacts(fluids, fluids, TRUE, with_self, kernel_radius),
           fluid_boundary_contacts |->
               ComputeContacts(fluids, boundaries, FALSE, with_self, kernel_radius),
           boundary_boundary_contacts |->
               ComputeContacts(boundaries, boundaries, TRUE, with_self, kernel_radius)]
    /\ entry' = fluids
    /\ pc' = "update_boundary_contacts"
    /\ UNCHANGED collaborators
    /\ UNCHANGED <<fluids, boundaries, with_self, dt, solver_buffers, loop_vars, steps>>

----------------------------------------------------------------------------
(* step(): contact refresh, boundary volumes, densities *)

\* the particle <<m, j>> comes before <<n, k>> in the order the loops visit them
Before(t, u) == t[1] < u[1] \/ (t[1] = u[1] /\ t[2] < u[2])

\* the first particle, in loop order, of a nonempty set of particles
First(ts) == CHOOSE t \in ts : \A u \in ts : t = u \/ Before(t, u)

\* a refresh that recomputes the weight and keeps the cached gradient
RefreshContact_weight_only(c, models1, models2) ==
    LET p_i == models1[c.i_model].positions[c.i]
        p_j == models2[c.j_model].positions[c.j]
    IN  [c EXCEPT !.weight = KernelDensity_points_apply(p_i, p_j, kernel_radius)]

\* the body of the for_each of update_fluid_contacts / update_boundary_contacts
RefreshContact(c, models1, models2) ==
    LET p_i == models1[c.i_model].positions[c.i]
        p_j == models2[c.j_model].positions[c.j]
    IN  [c EXCEPT !.weight = KernelDensity_points_apply(p_i, p_j, kernel_radius),
                  !.gradient = KernelGradient_points_apply_diff1(p_i, p_j, kernel_radius)]

RefreshContacts(contacts, models1, models2) ==
    [m \in 1..Len(contacts) |-> [j \in 1..Len(contacts[m]) |->
        [k \in 1..Len(contacts[m][j]) |->
            RefreshContact(contacts[m][j][k], models1, models2)]]]

update_boundary_contacts ==
    /\ pc = "update_boundary_contacts"
    /\ contact_manager' =
          [contact_manager EXCEPT !.boundary_boundary_contacts =
              RefreshContacts(boundary_boundary_contacts, boundaries, boundaries)]
    /\ pc' = "compute_boundary_volumes"
    /\ UNCHANGED collaborators
    /\ UNCHANGED <<fluids, boundaries, with_self, dt, entry, solver_buffers,
                   loop_vars, steps>>

\* denominator of compute_boundary_volumes for particle i of boundary b
volume_denominator(b, i) ==
    LET cs == boundary_boundary_contacts[b][i]
    IN  SumN([k \in 1..Len(cs) |-> cs[k].weight])

\* the slots of a buffer, as <<model, index>> pairs
Slots(buffer) ==
    UNION {{<<m, j>> : j \in 1..Len(buffer[m])} : m \in 1..Len(buffer)}

\* a fan-out over the slots of a buffer whose task panics on the particles of
\* `failing`: the slots visited before the panic hold their new value, and the
\* slot of the panicking task too when the task writes before it asserts
WrittenUntilPanic(old, new, failing, writes_first) ==
    [m \in 1..Len(old) |-> [j \in 1..Len(old[m]) |->
        IF \/ failing = {}
           \/ Before(<<m, j>>, First(failing))
           \/ (writes_first /\ <<m, j>> = First(failing))
        THEN new[m][j] ELSE old[m][j]]]

compute_boundary_volumes ==
    /\ pc = "compute_boundary_volumes"
    /\ LET failing == {t \in Slots(boundaries_volumes) :
                          volume_denominator(t[1], t[2]) = Zero}
           volume == [b \in 1..Len(boundaries_volumes) |->
                         [j \in 1..Len(boundaries_volumes[b]) |->
                             Div(One, volume_denominator(b, j))]]
       IN  /\ boundaries_volumes' =
                 WrittenUntilPanic(boundaries_volumes, volume, failing, FALSE)
           /\ pc' = IF failing = {} THEN "update_fluid_contacts" ELSE "aborted"
    /\ UNCHANGED collaborators
    /\ UNCHANGED <<world, loop_vars, steps, densities, aii, dii, dij_pjl, pressures,
                   next_pressures, predicted_densities, velocity_changes>>

update_fluid_contacts ==
    /\ pc = "update_fluid_contacts"
    /\ contact_manager' =
          [contact_manager EXCEPT
              !.fluid_fluid_contacts =
                  RefreshContacts(fluid_fluid_contacts, fluids, fluids),
              !.fluid_boundary_contacts =
                  RefreshContacts(fluid_boundary_contacts, fluids, boundaries)]
    /\ pc' = "compute_densities"
    /\ UNCHANGED collaborators
    /\ UNCHANGED <<fluids, boundaries, with_self, dt, entry, solver_buffers,
                   loop_vars, steps>>

\* a density estimation that weighs a fluid-fluid contact with the mass of the
\* source particle
neighbour_mass_of_source(c) == particle_mass(fluids[c.i_model], c.i)

\* the mass a fluid-fluid contact c contributes with: fluids[c.j_model].particle_mass(c.j)
neighbour_mass(c) == particle_mass(fluids[c.j_model], c.j)

\* the body of the for_each of compute_densities
density_of(f, i) ==
    LET ff == fluid_fluid_contacts[f][i]
        fb == fluid_boundary_contacts[f][i]
    IN  SumN([k \in 1..Len(ff) |-> Mul(neighbour_mass(ff[k]), ff[k].weight)])
        + SumN([k \in 1..Len(fb) |->
                Mul(Mul(boundaries_volumes[fb[k].j_model][fb[k].j],
                        fluids[fb[k].i_model].density0), fb[k].weight)])

\* a density estimation that goes on with a zero density
compute_densities_unchecked ==
    /\ pc = "compute_densities"
    /\ densities' = [f \in FluidIds |-> [j \in Particles(f) |-> density_of(f, j)]]
    /\ pc' = "nonpressure_forces"
    /\ UNCHANGED collaborators
    /\ UNCHANGED <<world, loop_vars, steps, aii, dii, dij_pjl, pressures,
                   next_pressures, predicted_densities, boundaries_volumes,
                   velocity_changes>>

compute_densities ==
    /\ pc = "compute_densities"
    /\ LET failing == {t \in Slots(densities) : density_of(t[1], t[2]) = Zero}
           density == [f \in FluidIds |-> [j \in Particles(f) |-> density_of(f, j)]]
       IN  /\ densities' = WrittenUntilPanic(densities, density, failing, TRUE)
           /\ pc' = IF failing = {} THEN "nonpressure_forces" ELSE "aborted"
    /\ UNCHANGED collaborators
    /\ UNCHANGED <<world, loop_vars, steps, aii, dii, dij_pjl, pressures,
                   next_pressures, predicted_densities, boundaries_volumes,
                   velocity_changes>>

----------------------------------------------------------------------------
(* step(): non-pressure forces and the coefficients of the relaxation *)

\* NonPressureForce::solve of a module on the velocity changes of one fluid
solve(np_force, changes) ==
    [j \in 1..Len(changes) |-> VAdd(changes[j], VScale(np_force.accel, dt))]

\* for np_force in &mut forces { np_force.solve(..) }, from module k on
RECURSIVE solve_all(_, _, _)
solve_all(forces, k, changes) ==
    IF k > Len(forces) THEN changes
    ELSE solve_all(forces, k + 1, solve(forces[k], changes))

nonpressure_forces ==
    /\ pc = "nonpressure_forces"
    /\ velocity_changes' =
          [f \in FluidIds |->
              solve_all(fluids[f].nonpressure_forces, 1, velocity_changes[f])]
    /\ fluids' =
          [f \in FluidIds |-> [fluids[f] EXCEPT !.nonpressure_forces =
              [k \in 1..Len(@) |-> [@[k] EXCEPT !.calls = @ + 1]]]]
    /\ pc' = "compute_dii"
    /\ UNCHANGED collaborators
    /\ UNCHANGED <<boundaries, contact_manager, with_self, dt, entry, loop_vars, steps,
                   densities, aii, dii, dij_pjl, pressures, next_pressures,
                   predicted_densities, boundaries_volumes>>

\* the body of the for_each of compute_dii
dii_of(f, i) ==
    LET ff == fluid_fluid_contacts[f][i]
        fb == fluid_boundary_contacts[f][i]
        rhoi == densities[f][i]
        factor == Div(Mul(-dt, dt), Mul(rhoi, rhoi))
    IN  VAdd(SumV([k \in 1..Len(ff) |->
                    VScale(ff[k].gradient,
                           Mul(particle_mass(fluids[ff[k].j_model], ff[k].j), factor))]),
             SumV([k \in 1..Len(fb) |->
                    VScale(fb[k].gradient,
                           Mul(Mul(boundaries_volumes[fb[k].j_model][fb[k].j],
                                   fluids[f].density0), factor))]))

compute_dii ==
    /\ pc = "compute_dii"
    /\ dii' = [f \in FluidIds |-> [j \in Particles(f) |-> dii_of(f, j)]]
    /\ pc' = "halve_pressures"
    /\ UNCHANGED collaborators
    /\ UNCHANGED <<world, loop_vars, steps, densities, aii, dij_pjl, pressures,
                   next_pressures, predicted_densities, boundaries_volumes,
                   velocity_changes>>

\* a step that starts the relaxation from zero pressures
warm_start_from_zero(p) == Zero

\* the warm start of step(): *p *= _0_5
warm_start(p) == Mul(p, Convert(5, 10))

halve_pressures ==
    /\ pc = "halve_pressures"
    /\ pressures' = [f \in FluidIds |-> [j \in Particles(f) |-> warm_start(pressures[f][j])]]
    /\ pc' = "compute_predicted_densities"
    /\ UNCHANGED collaborators
    /\ UNCHANGED <<world, loop_vars, steps, densities, aii, dii, dij_pjl,
                   next_pressures, predicted_densities, boundaries_volumes,
                   velocity_changes>>

\* the body of the for_each of compute_predicted_densities
predicted_density_of(f, i) ==
    LET ff == fluid_fluid_contacts[f][i]
        fb == fluid_boundary_contacts[f][i]
        fluid_i == fluids[f]
        v_i(c) == VAdd(fluid_i.velocities[c.i], velocity_changes[c.i_model][c.i])
        v_j(c) == VAdd(fluids[c.j_model].velocities[c.j], velocity_changes[c.j_model][c.j])
        delta ==
            SumN([k \in 1..Len(ff) |->
                    Mul(particle_mass(fluids[ff[k].j_model], ff[k].j),
                        Dot(VSub(v_i(ff[k]), v_j(ff[k])), ff[k].gradient))])
            + SumN([k \in 1..Len(fb) |->
                    Mul(Mul(boundaries_volumes[fb[k].j_model][fb[k].j], fluid_i.density0),
                        Dot(v_i(fb[k]), fb[k].gradient))])
    IN  densities[f][i] + Mul(delta, dt)

compute_predicted_densities ==
    /\ pc = "compute_predicted_densities"
    /\ LET failing == {t \in Slots(predicted_densities) :
                          predicted_density_of(t[1], t[2]) = Zero}
           predicted_density ==
               [f \in FluidIds |-> [j \in Particles(f) |-> predicted_density_of(f, j)]]
       IN  /\ predicted_densities' =
                 WrittenUntilPanic(predicted_densities, predicted_density, failing, TRUE)
           /\ pc' = IF failing = {} THEN "compute_aii" ELSE "aborted"
    /\ UNCHANGED collaborators
    /\ UNCHANGED <<world, loop_vars, steps, densities, aii, dii, dij_pjl, pressures,
                   next_pressures, boundaries_volumes, velocity_changes>>

\* the body of the for_each of compute_aii
aii_of(f, i) ==
    LET ff == fluid_fluid_contacts[f][i]
        fb == fluid_boundary_contacts[f][i]
        rhoi == densities[f][i]
        mi == particle_mass(fluids[f], i)
        factor == Div(Mul(Mul(dt, dt), mi), Mul(rhoi, rhoi))
        dji(c) == VScale(c.gradient, factor)
    IN  SumN([k \in 1..Len(ff) |->
                Mul(particle_mass(fluids[ff[k].j_model], ff[k].j),
                    Dot(VSub(dii[f][ff[k].i], dji(ff[k])), ff[k].gradient))])
        + SumN([k \in 1..Len(fb) |->
                Mul(Mul(boundaries_volumes[fb[k].j_model][fb[k].j], fluids[f].density0),
                    Dot(VSub(dii[f][fb[k].i], dji(fb[k])), fb[k].gradient))])

compute_aii ==
    /\ pc = "compute_aii"
    /\ aii' = [f \in FluidIds |-> [j \in Particles(f) |-> aii_of(f, j)]]
    /\ loop_i' = 0
    /\ pc' = "pressure_solve"
    /\ UNCHANGED collaborators
    /\ UNCHANGED <<world, fluid_id, done, it, max_error, avg_err, steps, densities,
                   dii, dij_pjl, pressures, next_pressures, predicted_densities,
                   boundaries_volumes, velocity_changes>>

----------------------------------------------------------------------------
(* pressure_solve: the relaxation loop *)

\* a loop that runs once more than max_pressure_iter
loop_continues_inclusive(i) == i <= max_pressure_iter

\* for i in 0..self.max_pressure_iter
loop_continues(i) == i < max_pressure_iter

pressure_solve_head ==
    /\ pc = "pressure_solve"
    /\ IF loop_continues(loop_i)
       THEN /\ pc' = "compute_dij_pjl"
            /\ fluid_id' = 1
            /\ done' = {}
       ELSE /\ pc' = "compute_velocity_changes"
            /\ UNCHANGED <<fluid_id, done>>
    /\ UNCHANGED collaborators
    /\ UNCHANGED <<world, solver_buffers, loop_i, it, max_error, avg_err, steps>>

\* an in-place update: a task reads the pressure a finished task of the same
\* iteration has written
read_pressure_in_place(m, j) ==
    IF pc = "compute_next_pressures" /\ m = fluid_id /\ j \in done
    THEN next_pressures[m][j] ELSE pressures[m][j]

\* the pressure a task of the relaxation reads for particle j of fluid m
read_pressure(m, j) == pressures[m][j]

\* the body of the for_each of compute_dij_pjl
dij_pjl_of(f, i) ==
    LET ff == fluid_fluid_contacts[f][i]
        term(c) ==
            LET rhoj == densities[c.j_model][c.j]
                mj == particle_mass(fluids[c.j_model], c.j)
                p_jl == read_pressure(c.j_model, c.j)
            IN  VScale(c.gradient, Div(Mul(-mj, p_jl), Mul(rhoj, rhoj)))
    IN  VScale(SumV([k \in 1..Len(ff) |-> term(ff[k])]), Mul(dt, dt))

\* one task of the fan-out of compute_dij_pjl over the particles of fluid_id
dij_pjl_task(j) ==
    /\ pc = "compute_dij_pjl"
    /\ fluid_id <= Len(fluids)
    /\ j \in Particles(fluid_id) \ done
    /\ dij_pjl' = [dij_pjl EXCEPT ![fluid_id][j] = dij_pjl_of(fluid_id, j)]
    /\ done' = done \cup {j}
    /\ UNCHANGED collaborators
    /\ UNCHANGED <<world, pc, loop_i, fluid_id, it, max_error, avg_err, steps, densities,
                   aii, dii, pressures, next_pressures, predicted_densities,
                   boundaries_volumes, velocity_changes>>

\* the fan-out over one fluid has finished: the next fluid, or the next stage
dij_pjl_join ==
    /\ pc = "compute_dij_pjl"
    /\ done = Particles(fluid_id)
    /\ done' = {}
    /\ IF fluid_id < Len(fluids)
       THEN /\ fluid_id' = fluid_id + 1
            /\ UNCHANGED <<pc, max_error, it>>
       ELSE /\ fluid_id' = 1
            /\ pc' = "compute_next_pressures"
            /\ max_error' = Zero
            /\ it' = <<>>
    /\ UNCHANGED collaborators
    /\ UNCHANGED <<world, solver_buffers, loop_i, avg_err, steps>>

\* if aii[i].abs() > na::convert(1.0e-9)
aii_significant(a) == Abs(a) > AiiEps

\* (N::one() - omega) * pi + omega * (derr - sum) / aii[i]
relaxed_pressure(p_i, derr, sum, a) ==
    Mul(One - omega, p_i) + Div(Mul(omega, derr - sum), a)

\* a clamp that yields the residual of the clamped pressure as the error
clamp_pressure_residual(next_pressure, sum, a, density0) ==
    IF next_pressure > Zero
    THEN [next_pressure |-> next_pressure,
          err |-> Div(-sum - Mul(a, next_pressure), density0)]
    ELSE [next_pressure |-> Zero, err |-> Div(-sum - Mul(a, Zero), density0)]

\* a relaxation that keeps negative pressures
clamp_pressure_unclamped(next_pressure, sum, a, density0) ==
    [next_pressure |-> next_pressure,
     err |-> Div(-sum - Mul(a, next_pressure), density0)]

\* the clamp of the relaxed pressure and the error the task yields with it
clamp_pressure(next_pressure, sum, a, density0) ==
    IF next_pressure > Zero
    THEN [next_pressure |-> Max(next_pressure, Zero),
          err |-> Div(-sum - Mul(a, Max(next_pressure, Zero)), density0)]
    ELSE [next_pressure |-> Zero, err |-> Zero]

\* a lock that yields the density residual as the error
locked_pressure_residual(p_i, derr, density0) ==
    [next_pressure |-> Zero, err |-> Div(derr, density0)]

\* the value of a particle whose aii is not significant
locked_pressure(p_i, derr, density0) == [next_pressure |-> Zero, err |-> Zero]

\* sum of the task of compute_next_pressures for particle i of fluid f
pressure_sum(f, i) ==
    LET ff == fluid_fluid_contacts[f][i]
        fb == fluid_boundary_contacts[f][i]
        p_i == read_pressure(f, i)
        mi == particle_mass(fluids[f], i)
        rhoi == densities[f][i]
        ff_term(c) ==
            LET mj == particle_mass(fluids[c.j_model], c.j)
                dji == VScale(c.gradient, Div(Mul(Mul(dt, dt), mi), Mul(rhoi, rhoi)))
                factor ==
                    VSub(VSub(dij_pjl[c.i_model][c.i],
                              VScale(dii[c.j_model][c.j], read_pressure(c.j_model, c.j))),
                         VSub(dij_pjl[c.j_model][c.j], VScale(dji, p_i)))
            IN  Mul(mj, Dot(factor, c.gradient))
        fb_term(c) ==
            LET mj == Mul(boundaries_volumes[c.j_model][c.j], fluids[f].density0)
            IN  Mul(mj, Dot(dij_pjl[c.i_model][c.i], c.gradient))
    IN  SumN([k \in 1..Len(ff) |-> ff_term(ff[k])])
        + SumN([k \in 1..Len(fb) |-> fb_term(fb[k])])

\* the closure of the map of compute_next_pressures: the next pressure of
\* particle i of fluid f and the error it yields
next_pressure_of(f, i) ==
    LET derr == fluids[f].density0 - predicted_densities[f][i]
    IN  IF aii_significant(aii[f][i])
        THEN clamp_pressure(
                 relaxed_pressure(read_pressure(f, i), derr, pressure_sum(f, i), aii[f][i]),
                 pressure_sum(f, i), aii[f][i], fluids[f].density0)
        ELSE locked_pressure(read_pressure(f, i), derr, fluids[f].density0)

\* one task of the fan-out of compute_next_pressures over the particles of fluid_id
next_pressure_task(j) ==
    /\ pc = "compute_next_pressures"
    /\ fluid_id <= Len(fluids)
    /\ j \in Particles(fluid_id) \ done
    /\ LET r == next_pressure_of(fluid_id, j)
       IN  /\ next_pressures' = [next_pressures EXCEPT ![fluid_id][j] = r.next_pressure]
           /\ it' = [k \in done \cup {j} |-> IF k = j THEN r.err ELSE it[k]]
    /\ done' = done \cup {j}
    /\ UNCHANGED collaborators
    /\ UNCHANGED <<world, pc, loop_i, fluid_id, max_error, avg_err, steps, densities,
                   aii, dii, dij_pjl, pressures, predicted_densities,
                   boundaries_volumes, velocity_changes>>

\* par_reduce_sum!(N::zero(), it)
RECURSIVE par_reduce_sum(_, _)
par_reduce_sum(items, ks) ==
    IF ks = {} THEN Zero
    ELSE LET k == CHOOSE x \in ks : TRUE
         IN  items[k] + par_reduce_sum(items, ks \ {k})

\* a metric that adds the averages of the fluids up
fold_error_sum(max_err, err, nparts) ==
    IF nparts # 0 THEN max_err + Div(err, nparts * One) ELSE max_err

\* if nparts != 0 { max_error = max_error.max(err / na::convert(nparts as f64)) }
fold_error(max_err, err, nparts) ==
    IF nparts # 0 THEN Max(max_err, Div(err, nparts * One)) ELSE max_err

\* the reduction over one fluid; after the last fluid compute_next_pressures returns
reduce_error ==
    /\ pc = "compute_next_pressures"
    /\ done = Particles(fluid_id)
    /\ LET err == par_reduce_sum(it, done)
           folded == fold_error(max_error, err, num_particles(fluids[fluid_id]))
       IN  /\ max_error' = folded
           /\ IF fluid_id < Len(fluids)
              THEN /\ fluid_id' = fluid_id + 1
                   /\ UNCHANGED <<pc, avg_err>>
              ELSE /\ fluid_id' = 1
                   /\ avg_err' = folded
                   /\ pc' = "swap"
    /\ done' = {}
    /\ it' = <<>>
    /\ UNCHANGED collaborators
    /\ UNCHANGED <<world, solver_buffers, loop_i, steps>>

\* if avg_err <= self.max_density_error && i >= self.min_pressure_iter { break }
loop_breaks(err, i) == err <= max_density_error /\ i >= min_pressure_iter

\* std::mem::swap of the two pressure buffers, then the convergence check
swap_pressures ==
    /\ pc = "swap"
    /\ pressures' = next_pressures
    /\ next_pressures' = pressures
    /\ IF loop_breaks(avg_err, loop_i)
       THEN /\ pc' = "compute_velocity_changes"
            /\ UNCHANGED loop_i
       ELSE /\ pc' = "pressure_solve"
            /\ loop_i' = loop_i + 1
    /\ UNCHANGED collaborators
    /\ UNCHANGED <<world, fluid_id, done, it, max_error, avg_err, steps, densities,
                   aii, dii, dij_pjl, predicted_densities, boundaries_volumes,
                   velocity_changes>>

----------------------------------------------------------------------------
(* step(): integration and the reset of the accumulator *)

\* the body of the for_each of compute_velocity_changes
velocity_change_of(f, i) ==
    LET ff == fluid_fluid_contacts[f][i]
        fb == fluid_boundary_contacts[f][i]
        p_i == pressures[f][i]
        rhoi == densities[f][i]
        ff_term(c) ==
            LET mj == particle_mass(fluids[c.j_model], c.j)
                p_j == pressures[c.j_model][c.j]
                rhoj == densities[c.j_model][c.j]
            IN  VScale(c.gradient,
                       Mul(Mul(dt, mj),
                           Div(p_i, Mul(rhoi, rhoi)) + Div(p_j, Mul(rhoj, rhoj))))
        fb_term(c) ==
            LET mj == Mul(boundaries_volumes[c.j_model][c.j], fluids[f].density0)
            IN  VScale(c.gradient, Div(Mul(Mul(dt, mj), p_i), Mul(rhoi, rhoi)))
    IN  VSub(VSub(velocity_changes[f][i], SumV([k \in 1..Len(ff) |-> ff_term(ff[k])])),
             SumV([k \in 1..Len(fb) |-> fb_term(fb[k])]))

compute_velocity_changes ==
    /\ pc = "compute_velocity_changes"
    /\ velocity_changes' =
          [f \in FluidIds |-> [j \in Particles(f) |-> velocity_change_of(f, j)]]
    /\ pc' = "update_velocities_and_positions"
    /\ UNCHANGED collaborators
    /\ UNCHANGED <<world, loop_vars, steps, densities, aii, dii, dij_pjl, pressures,
                   next_pressures, predicted_densities, boundaries_volumes>>

\* *vel += delta; *pos += *vel * dt
update_velocities_and_positions ==
    /\ pc = "update_velocities_and_positions"
    /\ fluids' =
          [f \in FluidIds |->
              LET vel == [j \in Particles(f) |->
                             VAdd(fluids[f].velocities[j], velocity_changes[f][j])]
              IN  [fluids[f] EXCEPT
                      !.velocities = vel,
                      !.positions = [j \in Particles(f) |->
                                        VAdd(@[j], VScale(vel[j], dt))]]]
    /\ pc' = "reset_velocity_changes"
    /\ UNCHANGED collaborators
    /\ UNCHANGED <<boundaries, contact_manager, with_self, dt, entry, solver_buffers,
                   loop_vars, steps>>

\* a reset that leaves the accumulator as it is
zero_fill_skipped(v) == v

\* v.fill(N::zero()) on every velocity change
zero_fill(v) == VZero

\* the last statement of step(), after which step() returns
reset_velocity_changes ==
    /\ pc = "reset_velocity_changes"
    /\ velocity_changes' =
          [f \in FluidIds |-> [j \in Particles(f) |-> zero_fill(velocity_changes[f][j])]]
    /\ steps' = steps + 1
    /\ pc' = "idle"
    /\ UNCHANGED collaborators
    /\ UNCHANGED <<world, loop_vars, densities, aii, dii, dij_pjl, pressures,
                   next_pressures, predicted_densities, boundaries_volumes>>

----------------------------------------------------------------------------
Next ==
    \/ \E g \in GravitySet : predict_advection(g)
    \/ call_step
    \/ update_boundary_contacts
    \/ compute_boundary_volumes
    \/ update_fluid_contacts
    \/ compute_densities
    \/ nonpressure_forces
    \/ compute_dii
    \/ halve_pressures
    \/ compute_predicted_densities
    \/ compute_aii
    \/ pressure_solve_head
    \/ \E j \in 1..2 : dij_pjl_task(j)
    \/ dij_pjl_join
    \/ \E j \in 1..2 : next_pressure_task(j)
    \/ reduce_error
    \/ swap_pressures
    \/ compute_velocity_changes
    \/ update_velocities_and_positions
    \/ reset_velocity_changes

Spec == Init /\ [][Next]_vars

----------------------------------------------------------------------------
(* The TimestepManager under any sequence of reset() and advance() *)

\* a solver that was given no fluid and no boundary
EmptyScene ==
    /\ fluids = <<>>
    /\ boundaries = <<>>
    /\ with_self = FALSE
    /\ dt = Zero
    /\ contact_manager = [fluid_fluid_contacts |-> <<>>,
                          fluid_boundary_contacts |-> <<>>,
                          boundary_boundary_contacts |-> <<>>]
    /\ densities = <<>>
    /\ predicted_densities = <<>>
    /\ velocity_changes = <<>>
    /\ aii = <<>>
    /\ dii = <<>>
    /\ dij_pjl = <<>>
    /\ pressures = <<>>
    /\ next_pressures = <<>>
    /\ boundaries_volumes = <<>>
    /\ pc = "idle"
    /\ loop_i = 0
    /\ fluid_id = 1
    /\ done = {}
    /\ it = <<>>
    /\ max_error = Zero
    /\ avg_err = Zero
    /\ steps = 0
    /\ entry = <<>>

solver_vars == <<world, solver_buffers, loop_vars, pc, steps>>

TimestepInit ==
    /\ EmptyScene
    /\ timestep_manager = TimestepManager_new(particle_radius)
    /\ calls = NoCalls
    /\ artificial_viscosity = ArtificialViscosity_new(Zero, Zero)
    /\ viscosity_calls = NoViscosityCalls

\* the caller starts an outer step of length total_step_size
reset(total_step_size) ==
    /\ calls.resets < MaxResets
    /\ timestep_manager' = reset_of(timestep_manager, total_step_size)
    /\ calls' = [resets |-> calls.resets + 1, advances |-> 0, last |-> "reset"]
    /\ UNCHANGED <<solver_vars, artificial_viscosity, viscosity_calls>>

\* the caller asks for the next substep
advance ==
    /\ calls.advances < MaxAdvances
    /\ timestep_manager' = advance_of(timestep_manager, fluids)
    /\ calls' = [calls EXCEPT !.advances = @ + 1, !.last = "advance"]
    /\ UNCHANGED <<solver_vars, artificial_viscosity, viscosity_calls>>

TimestepNext ==
    \/ \E total_step_size \in StepSizes : reset(total_step_size)
    \/ advance

TimestepSpec == TimestepInit /\ [][TimestepNext]_vars

----------------------------------------------------------------------------
(* ArtificialViscosity (src/solver/viscosity/artificial_viscosity.rs) *)

\* a module that treats every contact whose particles move relative to each
\* other as an approaching one
approaching_or_receding(vr) == vr # Zero

\* if vr < N::zero()
approaching(vr) == vr < Zero

\* eta2 and mu_ij of a contact
mu_ij(h, vr, r_ij) ==
    LET eta2 == Mul(Mul(h, h), Convert(1, 100))
    IN  Div(Mul(h, vr), Dot(r_ij, r_ij) + eta2)

\* c.gradient * ((speed_of_sound * alpha * mu_ij - beta * mu_ij * mu_ij)
\*               * (volume_j * density0 / density_average))
viscosity_term(av, h, c, vr, r_ij, volume_j, density0, density_average) ==
    LET mu == mu_ij(h, vr, r_ij)
    IN  VScale(c.gradient,
               Mul(Mul(Mul(av.speed_of_sound, av.alpha), mu) - Mul(Mul(av.beta, mu), mu),
                   Div(Mul(volume_j, density0), density_average)))

\* r_ij . v_ij of a fluid-fluid contact of `fluid`
fluid_vr(fluid, c) ==
    Dot(VSub(fluid.positions[c.i], fluid.positions[c.j]),
        VSub(fluid.velocities[c.i], fluid.velocities[c.j]))

\* r_ij . v_ij of a fluid-boundary contact of `fluid`
boundary_vr(fluid, bounds, c) ==
    Dot(VSub(fluid.positions[c.i], bounds[c.j_model].positions[c.j]),
        VSub(fluid.velocities[c.i], bounds[c.j_model].velocities[c.j]))

\* the contribution of one fluid-fluid contact to added_fluid_acc
fluid_contribution(av, h, fluid, fluid_densities, c) ==
    IF c.i_model = c.j_model /\ approaching(fluid_vr(fluid, c))
    THEN viscosity_term(av, h, c, fluid_vr(fluid, c),
                        VSub(fluid.positions[c.i], fluid.positions[c.j]),
                        fluid.volumes[c.j], fluid.density0,
                        Mul(fluid_densities[c.i] + fluid_densities[c.j], Convert(5, 10)))
    ELSE VZero

\* the contribution of one fluid-boundary contact to added_boundary_acc
boundary_contribution(av, h, fluid, bounds, fluid_densities, c) ==
    IF approaching(boundary_vr(fluid, bounds, c))
    THEN viscosity_term(av, h, c, boundary_vr(fluid, bounds, c),
                        VSub(fluid.positions[c.i], bounds[c.j_model].positions[c.j]),
                        bounds[c.j_model].volumes[c.j], fluid.density0,
                        fluid_densities[c.i])
    ELSE VZero

\* the body of the for_each of ArtificialViscosity::solve for particle i
acceleration_of(av, h, ff, fb, fluid, bounds, fluid_densities, i) ==
    LET added_fluid_acc ==
            IF av.fluid_viscosity_coefficient # Zero
            THEN SumV([k \in 1..Len(ff[i]) |->
                          fluid_contribution(av, h, fluid, fluid_densities, ff[i][k])])
            ELSE VZero
        added_boundary_acc ==
            IF av.boundary_viscosity_coefficient # Zero
            THEN SumV([k \in 1..Len(fb[i]) |->
                          boundary_contribution(av, h, fluid, bounds, fluid_densities,
                                                fb[i][k])])
            ELSE VZero
    IN  VAdd(fluid.accelerations[i],
             VAdd(VScale(added_fluid_acc, av.fluid_viscosity_coefficient),
                  VScale(added_boundary_acc, av.boundary_viscosity_coefficient)))

\* ArtificialViscosity::solve: the fluid it leaves
ArtificialViscosity_solve(av, h, ff, fb, fluid, bounds, fluid_densities) ==
    [fluid EXCEPT !.accelerations =
        [i \in 1..Len(fluid.accelerations) |->
            acceleration_of(av, h, ff, fb, fluid, bounds, fluid_densities, i)]]

\* two fluids and a boundary with their contacts, densities and accelerations,
\* and a module built by ArtificialViscosity::new
ViscosityInit ==
    /\ \E ps2 \in Fluid2Positions, v1 \in ViscosityVelocities, a \in AccelerationSet :
        fluids = <<[positions |-> <<(<<0, 50>>), (<<50, 50>>)>>,
                    velocities |-> <<v1, VZero>>,
                    accelerations |-> <<a, a>>,
                    volumes |-> <<ParticleVolume, ParticleVolume>>,
                    density0 |-> One,
                    nonpressure_forces |-> <<>>],
                   [positions |-> ps2,
                    velocities |-> [j \in 1..Len(ps2) |-> <<-30, 0>>],
                    accelerations |-> [j \in 1..Len(ps2) |-> a],
                    volumes |-> [j \in 1..Len(ps2) |-> ParticleVolume],
                    density0 |-> 2 * One,
                    nonpressure_forces |-> <<>>]>>
    /\ boundaries = <<[positions |-> <<(<<0, 0>>), (<<50, 0>>)>>,
                       velocities |-> <<VZero, VZero>>,
                       volumes |-> <<ParticleVolume, ParticleVolume>>]>>
    /\ with_self = TRUE
    /\ dt = One
    /\ contact_manager =
          [fluid_fluid_contacts |->
               RefreshContacts(ComputeContacts(fluids, fluids, TRUE, with_self,
                                               kernel_radius), fluids, fluids),
           fluid_boundary_contacts |->
               RefreshContacts(ComputeContacts(fluids, boundaries, FALSE, with_self,
                                               kernel_radius), fluids, boundaries),
           boundary_boundary_contacts |-> Resized(boundaries, <<>>)]
    /\ \E d \in DensitySet : densities = Resized(fluids, d)
    /\ predicted_densities = Resized(fluids, Zero)
    /\ velocity_changes = Resized(fluids, VZero)
    /\ aii = Resized(fluids, Zero)
    /\ dii = Resized(fluids, VZero)
    /\ dij_pjl = Resized(fluids, VZero)
    /\ pressures = Resized(fluids, Zero)
    /\ next_pressures = Resized(fluids, Zero)
    /\ boundaries_volumes = Resized(boundaries, Zero)
    /\ pc = "idle"
    /\ loop_i = 0
    /\ fluid_id = 1
    /\ done = {}
    /\ it = <<>>
    /\ max_error = Zero
    /\ avg_err = Zero
    /\ steps = 0
    /\ entry = fluids
    /\ timestep_manager = TimestepManager_new(particle_radius)
    /\ calls = NoCalls
    /\ \E cf \in ViscosityCoefficients, cb \in ViscosityCoefficients :
          artificial_viscosity = ArtificialViscosity_new(cf, cb)
    /\ viscosity_calls = NoViscosityCalls

\* a call of solve() on the module, for fluid f
viscosity_solve(f) ==
    /\ viscosity_calls.count < MaxViscosityCalls
    /\ fluids' = [fluids EXCEPT ![f] =
          ArtificialViscosity_solve(artificial_viscosity, kernel_radius,
                                    fluid_fluid_contacts[f], fluid_boundary_contacts[f],
                                    fluids[f], boundaries, densities[f])]
    /\ viscosity_calls' = [count |-> viscosity_calls.count + 1, last |-> "solve",
                           fluid |-> f]
    /\ UNCHANGED <<boundaries, contact_manager, with_self, dt, entry, solver_buffers,
                   loop_vars, pc, steps, timestep_manager, calls, artificial_viscosity>>

\* fn apply_permutation(&mut self, _: &[usize]) {}
apply_permutation ==
    /\ viscosity_calls.count < MaxViscosityCalls
    /\ viscosity_calls' = [count |-> viscosity_calls.count + 1,
                           last |-> "apply_permutation", fluid |-> 0]
    /\ UNCHANGED <<solver_vars, timestep_manager, calls, artificial_viscosity>>

ViscosityNext ==
    \/ \E f \in 1..2 : viscosity_solve(f)
    \/ apply_permutation

ViscositySpec == ViscosityInit /\ [][ViscosityNext]_vars

----------------------------------------------------------------------------
(* Properties *)

LoopStages == {"pressure_solve", "compute_dij_pjl", "compute_next_pressures", "swap"}

\* the stages of step() that follow the return of pressure_solve
AfterLoopStages ==
    {"compute_velocity_changes", "update_velocities_and_positions",
     "reset_velocity_changes"}

\* pressure_solve has returned in this step, or step() has returned at least once
LoopReturned ==
    pc \in AfterLoopStages \/ (pc \in {"idle", "advected"} /\ steps > 0)

\* C1: once the relaxation loop of a step has returned, and in every later step
\* until the next loop starts, every entry of the current pressure buffer of
\* every fluid is >= 0.
C1_PressuresNonNegative ==
    LoopReturned => \A t \in Slots(pressures) : pressures[t[1]][t[2]] >= Zero

\* the loop of the second step has returned; one particle that responds to
\* pressure holds pressure 0 (clamped) and another a positive pressure
C1_Witness ==
    /\ pc = "compute_velocity_changes"
    /\ steps = 1
    /\ \E t \in Slots(pressures) :
          aii_significant(aii[t[1]][t[2]]) /\ pressures[t[1]][t[2]] = Zero
    /\ \E t \in Slots(pressures) : pressures[t[1]][t[2]] > Zero

\* a step of one task of the fan-out of `stage`
TaskStep(stage) == pc = stage /\ pc' = stage /\ done' # done /\ done' # {}

\* the slots the step of a task of the running fan-out may write
OwnSlots == {<<fluid_id, k>> : k \in done' \ done}

\* no task of the relaxation writes the current pressures or a slot of another
\* particle, and the buffers are exchanged whole, at the swap only
JacobiFrame ==
    /\ TaskStep("compute_dij_pjl") =>
          /\ pressures' = pressures
          /\ next_pressures' = next_pressures
          /\ \A t \in Slots(dij_pjl) \ OwnSlots : dij_pjl'[t[1]][t[2]] = dij_pjl[t[1]][t[2]]
    /\ TaskStep("compute_next_pressures") =>
          /\ pressures' = pressures
          /\ dij_pjl' = dij_pjl
          /\ \A t \in Slots(next_pressures) \ OwnSlots :
                next_pressures'[t[1]][t[2]] = next_pressures[t[1]][t[2]]
    /\ (pc \in LoopStages /\ pressures' # pressures) =>
          /\ pc = "swap"
          /\ pressures' = next_pressures
          /\ next_pressures' = pressures

\* when the buffers are about to be exchanged, every slot of the next-pressure
\* buffer holds the value computed from the current-pressure buffer of the
\* iteration, whatever the order of the tasks was
JacobiResult ==
    pc = "swap" =>
        \A t \in Slots(next_pressures) :
            next_pressures[t[1]][t[2]] = next_pressure_of(t[1], t[2]).next_pressure

\* C2: Jacobi semantics of the relaxation loop: the tasks of an iteration read the
\* current pressures only and write their own slot only, so every order of the
\* tasks yields the same next-pressure buffer, and the two buffers are exchanged
\* by a whole-buffer swap after all tasks have finished.
C2_JacobiSemantics == []JacobiResult /\ [][JacobiFrame]_vars

\* the tasks of an iteration have finished; two particles of fluid 1 that are in
\* contact both got a next pressure that differs from their current pressure
C2_Witness ==
    /\ pc = "swap"
    /\ loop_i >= 1
    /\ Len(fluid_fluid_contacts[1][1]) >= 2
    /\ \A j \in Particles(1) :
          next_pressures[1][j] # pressures[1][j] /\ pressures[1][j] > Zero

AllZero(changes) == \A t \in Slots(changes) : changes[t[1]][t[2]] = VZero

\* the accumulator is zero when step() has returned; at the reset the integrated
\* velocities still reflect the accumulator
AccumulatorReset ==
    /\ (pc = "idle" /\ steps > 0) => AllZero(velocity_changes)
    /\ pc = "reset_velocity_changes" =>
          \A t \in Slots(velocity_changes) :
              fluids[t[1]].velocities[t[2]] =
                  VAdd(entry[t[1]].velocities[t[2]], velocity_changes[t[1]][t[2]])

\* step() returns through the reset only, the reset follows the integration, and
\* no stage between the entry of step() and the reset zeroes the accumulator
\* (the other stages that write it add to it)
ResetOnce ==
    /\ (pc # "idle" /\ pc' = "idle") =>
          pc = "reset_velocity_changes" /\ AllZero(velocity_changes')
    /\ (pc # "reset_velocity_changes" /\ pc' = "reset_velocity_changes") =>
          pc = "update_velocities_and_positions" /\ velocity_changes' = velocity_changes
    /\ (pc # "reset_velocity_changes" /\ velocity_changes' # velocity_changes) =>
          pc \in {"idle", "nonpressure_forces", "compute_velocity_changes"}

\* C3: when step() returns every entry of the velocity-change accumulator of
\* every fluid is the zero vector; the accumulator is zeroed once in a step, by
\* the last statement, after velocities and positions have been integrated.
C3_AccumulatorZeroed == []AccumulatorReset /\ [][ResetOnce]_vars

\* a step has returned that integrated a nonzero accumulator
C3_Witness ==
    /\ pc = "idle"
    /\ steps = 1
    /\ \E t \in Slots(velocity_changes) :
          fluids[t[1]].velocities[t[2]] # entry[t[1]].velocities[t[2]]

\* what is left of the relaxation loop: iterations first, then the stages of
\* the running iteration, then the tasks of the running fan-out
Progress == (fluid_id - 1) * (Cardinality(Slots(pressures)) + 1) + Cardinality(done)

StageWeight == 4 * (Cardinality(Slots(pressures)) + 1) * (Len(fluids) + 1)

LoopMeasure ==
    IF pc \notin LoopStages THEN 0
    ELSE (max_pressure_iter - loop_i) * 4 * StageWeight
         + (CASE pc = "pressure_solve" -> 4 * StageWeight
              [] pc = "compute_dij_pjl" -> 3 * StageWeight - Progress
              [] pc = "compute_next_pressures" -> 2 * StageWeight - Progress
              [] pc = "swap" -> StageWeight)

\* a task of the running fan-out is left to run, or the fan-out can be joined
FanOutCanAdvance ==
    fluid_id \in FluidIds /\ done \subseteq Particles(fluid_id)

\* the loop body runs only below max_pressure_iter, and the loop is never stuck
LoopBounded ==
    /\ loop_i <= max_pressure_iter
    /\ pc \in LoopStages \ {"pressure_solve"} => loop_i < max_pressure_iter
    /\ pc \in LoopStages => LoopMeasure > 0
    /\ pc \in {"compute_dij_pjl", "compute_next_pressures"} => FanOutCanAdvance

\* every step of the loop brings its end closer, and from exhaustion the step
\* goes on to the integration
LoopAdvances ==
    /\ pc \in LoopStages => LoopMeasure' < LoopMeasure /\ pc' # "aborted"
    /\ (pc = "pressure_solve" /\ loop_i = max_pressure_iter) =>
          pc' = "compute_velocity_changes"

\* C4: the relaxation loop ends after at most max_pressure_iter iterations,
\* whatever the errors are; ending by exhaustion raises no error and the step
\* goes on to the integration of velocities and positions.
C4_LoopTerminates == []LoopBounded /\ [][LoopAdvances]_vars

\* the loop was exhausted with the error above the threshold and the step has
\* reached the integration
C4_Witness ==
    /\ pc = "update_velocities_and_positions"
    /\ loop_i = max_pressure_iter
    /\ avg_err > max_density_error

\* C5: the loop stops at the end of the first iteration whose error is
\* <= max_density_error once the iterations performed have reached
\* min_pressure_iter: it goes on to a further iteration only when that did not
\* hold at the end of the last one (loop_i iterations have been performed when
\* the loop head is reached again).
C5_StopsWhenConverged ==
    (pc = "pressure_solve" /\ loop_i >= 1) =>
        ~(avg_err <= max_density_error /\ loop_i >= min_pressure_iter)

\* the error contribution of particle j of fluid f in the running iteration
error_of(f, j) == next_pressure_of(f, j).err

\* the per-particle average of the error contributions of fluid f
PerFluidAverage(f) ==
    Div(SumN([j \in 1..num_particles(fluids[f]) |-> error_of(f, j)]),
        num_particles(fluids[f]) * One)

FluidsWithParticles == {f \in FluidIds : num_particles(fluids[f]) # 0}

\* C6 as claimed: the metric compared with max_density_error is the average,
\* across all fluids, of the per-fluid averages of the per-particle errors.
C6_AverageAcrossFluids ==
    pc = "swap" =>
        avg_err = Div(SumN([f \in 1..Len(fluids) |-> PerFluidAverage(f)]),
                      Len(fluids) * One)

\* C6: the metric compared with max_density_error is the maximum of 0 and of
\* the per-fluid averages of the per-particle errors, over the fluids that
\* have particles.
C6_MaximumAcrossFluids ==
    pc = "swap" =>
        /\ avg_err >= Zero
        /\ \A f \in FluidsWithParticles : avg_err >= PerFluidAverage(f)
        /\ avg_err = Zero \/ \E f \in FluidsWithParticles : avg_err = PerFluidAverage(f)

\* an iteration in which the two fluids have different positive averages
C6_Witness ==
    /\ pc = "swap"
    /\ PerFluidAverage(1) > Zero
    /\ PerFluidAverage(2) > Zero
    /\ PerFluidAverage(1) # PerFluidAverage(2)

\* the relaxed pressure of particle j of the running fluid, before the clamp
relaxed_of(j) ==
    relaxed_pressure(pressures[fluid_id][j],
                     fluids[fluid_id].density0 - predicted_densities[fluid_id][j],
                     pressure_sum(fluid_id, j), aii[fluid_id][j])

\* the particles of the running fan-out whose task has finished and whose aii
\* is significant
Relaxed == {j \in done : aii_significant(aii[fluid_id][j])}

\* C7 as claimed: a particle whose relaxed pressure is negative, and clamped to
\* 0, yields (-sum - aii * pressure) / density0 as its error, with the clamped
\* pressure.
C7_ClampedErrorRecomputed ==
    pc = "compute_next_pressures" =>
        \A j \in Relaxed :
            relaxed_of(j) < Zero =>
                it[j] = Div(-pressure_sum(fluid_id, j)
                            - Mul(aii[fluid_id][j], next_pressures[fluid_id][j]),
                            fluids[fluid_id].density0)

\* C7: a particle whose relaxed pressure is not positive gets pressure 0 and
\* yields the error 0; a particle whose relaxed pressure is positive keeps it
\* and yields (-sum - aii * pressure) / density0.
C7_ClampedErrorZero ==
    pc = "compute_next_pressures" =>
        \A j \in Relaxed :
            IF relaxed_of(j) > Zero
            THEN /\ next_pressures[fluid_id][j] = relaxed_of(j)
                 /\ it[j] = Div(-pressure_sum(fluid_id, j)
                                - Mul(aii[fluid_id][j], relaxed_of(j)),
                                fluids[fluid_id].density0)
            ELSE /\ next_pressures[fluid_id][j] = Zero
                 /\ it[j] = Zero

\* a particle was clamped whose sum would have given a nonzero error
C7_Witness ==
    /\ pc = "compute_next_pressures"
    /\ \E j \in Relaxed :
          /\ relaxed_of(j) < Zero
          /\ Div(-pressure_sum(fluid_id, j), fluids[fluid_id].density0) # Zero

\* C8: a particle whose |aii| is not greater than 1e-9 gets the next pressure 0
\* and yields the error 0, and its task raises no error.
C8_NegligibleAiiLocked ==
    pc = "compute_next_pressures" =>
        \A j \in done :
            Abs(aii[fluid_id][j]) <= AiiEps =>
                next_pressures[fluid_id][j] = Zero /\ it[j] = Zero

\* the task of a particle with a negligible aii has finished in the second
\* iteration; its predicted density differs from the rest density
C8_Witness ==
    /\ pc = "compute_next_pressures"
    /\ loop_i >= 1
    /\ \E j \in done :
          /\ Abs(aii[fluid_id][j]) <= AiiEps
          /\ predicted_densities[fluid_id][j] # fluids[fluid_id].density0

\* the positions and velocities of the fluids are those step() was entered with
Untouched ==
    \A f \in FluidIds :
        /\ fluids[f].positions = entry[f].positions
        /\ fluids[f].velocities = entry[f].velocities

ZeroVolumeSum == \E t \in Slots(boundaries_volumes) : volume_denominator(t[1], t[2]) = Zero

ZeroDensity == \E t \in Slots(densities) : density_of(t[1], t[2]) = Zero

\* a zero sum aborts the step in the stage that computes it, and nothing runs
\* after the abort
AbortsAtOnce ==
    /\ (pc = "compute_boundary_volumes" /\ ZeroVolumeSum) => pc' = "aborted"
    /\ (pc = "compute_densities" /\ ZeroDensity) => pc' = "aborted"
    /\ pc # "aborted"

\* C9: a boundary particle whose contact weights sum to zero, or a fluid particle
\* whose density is zero, aborts step() in the stage that finds it: no later
\* stage runs, and the positions and velocities of the fluids are those the
\* step was entered with.
C9_FatalAbort == [](pc = "aborted" => Untouched) /\ [][AbortsAtOnce]_vars

\* the step was aborted by a fluid particle without contacts, after the
\* boundary volumes were computed
C9_Witness ==
    /\ pc = "aborted"
    /\ ~ZeroVolumeSum
    /\ \E t \in Slots(densities) :
          /\ Len(fluid_fluid_contacts[t[1]][t[2]]) = 0
          /\ Len(fluid_boundary_contacts[t[1]][t[2]]) = 0
          /\ densities[t[1]][t[2]] = Zero

\* every contact of a relation set holds the weight and the gradient of the
\* current positions
Fresh(contacts, models1, models2) ==
    \A m \in 1..Len(contacts) : \A j \in 1..Len(contacts[m]) :
        \A k \in 1..Len(contacts[m][j]) :
            LET c == contacts[m][j][k]
                p_i == models1[c.i_model].positions[c.i]
                p_j == models2[c.j_model].positions[c.j]
            IN  /\ c.weight = KernelDensity_points_apply(p_i, p_j, kernel_radius)
                /\ c.gradient = KernelGradient_points_apply_diff1(p_i, p_j, kernel_radius)

FluidContactsFresh ==
    /\ Fresh(fluid_fluid_contacts, fluids, fluids)
    /\ Fresh(fluid_boundary_contacts, fluids, boundaries)

\* C10 as claimed: the contact refresh of all three relation sets has completed
\* when the boundary volume estimation starts.
C10_RefreshBeforeVolumes ==
    pc = "compute_boundary_volumes" =>
        /\ Fresh(boundary_boundary_contacts, boundaries, boundaries)
        /\ FluidContactsFresh

\* the stages of step(), in the order of the code (the relaxation loop is one stage)
StepStages ==
    <<"update_boundary_contacts", "compute_boundary_volumes", "update_fluid_contacts",
      "compute_densities", "nonpressure_forces", "compute_dii", "halve_pressures",
      "compute_predicted_densities", "compute_aii", "pressure_solve",
      "compute_velocity_changes", "update_velocities_and_positions",
      "reset_velocity_changes">>

StageOf(p) == IF p \in LoopStages THEN "pressure_solve" ELSE p

StageIndex(p) == CHOOSE k \in 1..Len(StepStages) : StepStages[k] = StageOf(p)

InStep(p) == \E k \in 1..Len(StepStages) : StepStages[k] = StageOf(p)

\* a stage is followed by the next stage of StepStages, or by the abort
StageOrder ==
    StageOf(pc') # StageOf(pc) =>
        \/ pc \in {"idle", "advected"} /\ pc' \in {"advected", StepStages[1]}
        \/ InStep(pc) /\ pc' = "aborted"
        \/ InStep(pc) /\ InStep(pc') /\ StageIndex(pc') = StageIndex(pc) + 1
        \/ pc = StepStages[Len(StepStages)] /\ pc' = "idle"

\* the stages that read the weight or the gradient of a contact read refreshed
\* ones, and every force module has been invoked once per step
StagesPrepared ==
    /\ pc = "compute_boundary_volumes" =>
          Fresh(boundary_boundary_contacts, boundaries, boundaries)
    /\ (InStep(pc) /\ StageIndex(pc) \in
            StageIndex("compute_densities")..StageIndex("update_velocities_and_positions"))
          => FluidContactsFresh
    /\ \A f \in FluidIds : \A k \in 1..Len(fluids[f].nonpressure_forces) :
          fluids[f].nonpressure_forces[k].calls \in
              IF pc = "aborted" THEN {steps, steps + 1}
              ELSE IF InStep(pc) /\ StageIndex(pc) > StageIndex("nonpressure_forces")
              THEN {steps + 1} ELSE {steps}

\* C10: every step() runs its stages in this order, each after the one before:
\* refresh of the boundary-boundary contacts, boundary volumes, refresh of the
\* fluid-fluid and fluid-boundary contacts, densities, non-pressure force modules
\* (each invoked once), dii, halving of the stored pressures, predicted densities,
\* aii, relaxation loop, integration, accumulator reset; no stage reads the weight
\* or gradient of a contact before its relation set was refreshed in the step.
C10_StageOrder == []StagesPrepared /\ [][StageOrder]_vars

\* the densities of the second step are about to be computed from contacts of
\* moved particles
C10_Witness ==
    /\ pc = "compute_densities"
    /\ steps = 1
    /\ \E t \in Slots(densities) : \E k \in 1..Len(fluid_fluid_contacts[t[1]][t[2]]) :
          fluid_fluid_contacts[t[1]][t[2]][k].gradient # VZero

----------------------------------------------------------------------------
(* The TimestepManager: the substep it hands out and its termination *)

\* the last call on the TimestepManager was advance()
Advanced == calls.last = "advance"

\* C11: right after every advance(), the substep handed out is at most the
\* time that remains of the outer step: dt <= remaining_time.
C11_SubstepWithinRemaining ==
    Advanced => timestep_manager.dt <= timestep_manager.remaining_time

\* this step is a call of reset()
ResetStep == calls'.resets = calls.resets + 1

\* this step is a call of advance()
AdvanceStep == calls'.advances = calls.advances + 1

\* reset() keeps dt and inv_dt; advance() subtracts the stored dt, hands out
\* total_step_size, and never leaves the terminal condition
ManagerStep ==
    /\ ResetStep =>
          /\ timestep_manager'.dt = timestep_manager.dt
          /\ timestep_manager'.inv_dt = timestep_manager.inv_dt
          /\ timestep_manager'.remaining_time = timestep_manager'.total_step_size
    /\ AdvanceStep =>
          /\ timestep_manager'.remaining_time =
                timestep_manager.remaining_time - timestep_manager.dt
          /\ timestep_manager'.dt = timestep_manager.total_step_size
          /\ timestep_manager'.total_step_size = timestep_manager.total_step_size
          /\ is_done(timestep_manager) => is_done(timestep_manager')

\* two calls of advance() after a reset() reach the terminal condition
DoneInTwo ==
    (calls.resets >= 1 /\ calls.advances >= 2) => is_done(timestep_manager)

\* C16: reset() keeps dt and inv_dt, advance() subtracts the stored dt from
\* remaining_time and then sets dt to total_step_size; with step sizes >= 0,
\* is_done() holds after at most two calls of advance() following a reset()
\* and keeps holding under further calls of advance() until the next reset().
C16_DoneWithinTwoAdvances == []DoneInTwo /\ [][ManagerStep]_vars

\* the first outer step of length One needed both calls of advance(): the first
\* left remaining_time at One, the second brought it to 0
C16_Witness ==
    /\ calls = [resets |-> 1, advances |-> 2, last |-> "advance"]
    /\ timestep_manager.total_step_size = One
    /\ timestep_manager.remaining_time = Zero
    /\ is_done(timestep_manager)

----------------------------------------------------------------------------
(* Density estimation across several fluid models *)

\* the density of particle i of fluid f as the sum over its contacts, the fluid
\* models being `models`: mass_j * weight for a fluid-fluid contact, with the
\* mass of the neighbour's model; volume_j * density0_i * weight for a
\* fluid-boundary contact
DensitySum(models, f, i) ==
    LET ff == fluid_fluid_contacts[f][i]
        fb == fluid_boundary_contacts[f][i]
    IN  SumN([k \in 1..Len(ff) |->
                Mul(Mul(models[ff[k].j_model].volumes[ff[k].j],
                        models[ff[k].j_model].density0), ff[k].weight)])
        + SumN([k \in 1..Len(fb) |->
                Mul(Mul(boundaries_volumes[fb[k].j_model][fb[k].j], models[f].density0),
                    fb[k].weight)])

\* no particle of fluid f has a contact with a particle of fluid g
NoContactWith(f, g) ==
    \A i \in Particles(f) : \A k \in 1..Len(fluid_fluid_contacts[f][i]) :
        fluid_fluid_contacts[f][i][k].j_model # g

\* C12: once compute_densities has run, the density of every fluid particle is
\* the sum of mass_j * weight over its fluid-fluid contacts, mass_j being that of
\* the neighbour's model, plus volume_j * density0_i * weight over its
\* fluid-boundary contacts; and the densities of a fluid without contact with
\* another fluid stay the same whatever that other fluid's rest density is.
C12_NeighbourMassDensity ==
    pc = "nonpressure_forces" =>
        \A f \in FluidIds : \A i \in Particles(f) :
            /\ densities[f][i] = DensitySum(fluids, f, i)
            /\ \A g \in FluidIds \ {f} : \A d \in Density0Set \cup {3 * One} :
                  NoContactWith(f, g) =>
                      densities[f][i] =
                          DensitySum([fluids EXCEPT ![g].density0 = d], f, i)

\* the densities were computed and a particle of the first fluid has a contact
\* with a particle of the second one, whose rest density and mass differ from
\* its own, and a contact with a boundary particle
C12_Witness ==
    /\ pc = "nonpressure_forces"
    /\ Len(fluids) = 2
    /\ fluids[2].density0 # fluids[1].density0
    /\ \E i \in Particles(1) :
          /\ \E k \in 1..Len(fluid_fluid_contacts[1][i]) :
                /\ fluid_fluid_contacts[1][i][k].j_model = 2
                /\ fluid_fluid_contacts[1][i][k].weight > Zero
          /\ \E k \in 1..Len(fluid_boundary_contacts[1][i]) :
                /\ fluid_boundary_contacts[1][i][k].weight > Zero
                /\ boundaries_volumes[fluid_boundary_contacts[1][i][k].j_model]
                                     [fluid_boundary_contacts[1][i][k].j] > Zero

----------------------------------------------------------------------------
(* The conditions that abort a step *)

\* C13: a step aborts only when a fluid particle's density is exactly zero or
\* a boundary particle's normalization sum is exactly zero; with every density
\* and every normalization sum nonzero, step() runs through all its stages,
\* whatever the velocities, the accumulated velocity changes and dt are.
C13_OnlyTwoFatalConditions == pc = "aborted" => (ZeroVolumeSum \/ ZeroDensity)

----------------------------------------------------------------------------
(* The warm start of the pressures *)

\* the stages of step() up to the first swap of the relaxation loop
BeforeFirstSwap ==
    \/ pc \in {"idle", "advected", "update_boundary_contacts",
                "compute_boundary_volumes", "update_fluid_contacts",
                "compute_densities", "nonpressure_forces", "compute_dii",
                "halve_pressures", "compute_predicted_densities", "compute_aii"}
    \/ (pc \in LoopStages /\ loop_i = 0)

\* the only writes of the current pressures: the halving, once per step between
\* compute_dii and the loop, and the swaps of the loop
WarmStartStep ==
    /\ pc = "halve_pressures" =>
          /\ pc' = "compute_predicted_densities"
          /\ \A f \in FluidIds : \A j \in Particles(f) :
                2 * pressures'[f][j] \in {pressures[f][j], pressures[f][j] - 1}
    /\ pc' = "halve_pressures" => pc = "compute_dii"
    /\ pc = "swap" => pressures' = next_pressures
    /\ pc \notin {"halve_pressures", "swap"} => pressures' = pressures

\* C15: step() never zeroes the pressure buffer; it multiplies every current
\* pressure by 0.5 once per step, after compute_dii and before the relaxation
\* loop, and nothing else writes the buffer before the first swap: the first
\* iteration of a step reads half of what the previous step ended with, and 0
\* in the first step of a new solver.
C15_WarmStart ==
    /\ []((steps = 0 /\ BeforeFirstSwap) =>
            \A f \in FluidIds : \A j \in Particles(f) : pressures[f][j] = Zero)
    /\ [][WarmStartStep]_vars

\* the first iteration of the second step reads a nonzero pressure, the half of
\* the one the first step ended with
C15_Witness ==
    /\ steps = 1
    /\ pc = "compute_dij_pjl"
    /\ loop_i = 0
    /\ \E f \in FluidIds : \E j \in Particles(f) : pressures[f][j] > Zero

----------------------------------------------------------------------------
(* What ArtificialViscosity::solve writes *)

\* the fluid-fluid contacts of particle i of fluid f that are enabled and
\* approaching: both particles in the same fluid model and r_ij . v_ij < 0
ApproachingFluidContacts(f, i) ==
    IF artificial_viscosity.fluid_viscosity_coefficient = Zero THEN <<>>
    ELSE SelectSeq(fluid_fluid_contacts[f][i],
                   LAMBDA c : c.i_model = c.j_model /\ fluid_vr(fluids[f], c) < Zero)

\* the fluid-boundary contacts of particle i of fluid f that are enabled and
\* approaching
ApproachingBoundaryContacts(f, i) ==
    IF artificial_viscosity.boundary_viscosity_coefficient = Zero THEN <<>>
    ELSE SelectSeq(fluid_boundary_contacts[f][i],
                   LAMBDA c : boundary_vr(fluids[f], boundaries, c) < Zero)

\* the acceleration of particle i of fluid f plus the contributions of its
\* enabled approaching contacts
WithContributions(f, i) ==
    LET av == artificial_viscosity
        ffc == ApproachingFluidContacts(f, i)
        fbc == ApproachingBoundaryContacts(f, i)
        fluid_terms ==
            [k \in 1..Len(ffc) |->
                viscosity_term(av, kernel_radius, ffc[k], fluid_vr(fluids[f], ffc[k]),
                               VSub(fluids[f].positions[ffc[k].i],
                                    fluids[f].positions[ffc[k].j]),
                               fluids[f].volumes[ffc[k].j], fluids[f].density0,
                               Mul(densities[f][ffc[k].i] + densities[f][ffc[k].j],
                                   Convert(5, 10)))]
        boundary_terms ==
            [k \in 1..Len(fbc) |->
                viscosity_term(av, kernel_radius, fbc[k],
                               boundary_vr(fluids[f], boundaries, fbc[k]),
                               VSub(fluids[f].positions[fbc[k].i],
                                    boundaries[fbc[k].j_model].positions[fbc[k].j]),
                               boundaries[fbc[k].j_model].volumes[fbc[k].j],
                               fluids[f].density0, densities[f][fbc[k].i])]
    IN  VAdd(fluids[f].accelerations[i],
             VAdd(VScale(SumV(fluid_terms), av.fluid_viscosity_coefficient),
                  VScale(SumV(boundary_terms), av.boundary_viscosity_coefficient)))

\* this step is a call of solve() for fluid f
SolveStep(f) ==
    /\ viscosity_calls'.count = viscosity_calls.count + 1
    /\ viscosity_calls'.last = "solve"
    /\ viscosity_calls'.fluid = f

\* what a call on the module may write
ViscosityFrame ==
    /\ artificial_viscosity' = artificial_viscosity
    /\ boundaries' = boundaries
    /\ contact_manager' = contact_manager
    /\ densities' = densities
    /\ velocity_changes' = velocity_changes
    /\ \A f \in FluidIds :
          /\ fluids'[f].positions = fluids[f].positions
          /\ fluids'[f].velocities = fluids[f].velocities
          /\ fluids'[f].volumes = fluids[f].volumes
          /\ fluids'[f].density0 = fluids[f].density0
          /\ \A i \in Particles(f) :
                /\ fluids'[f].accelerations[i] # fluids[f].accelerations[i] =>
                      /\ SolveStep(f)
                      /\ Len(ApproachingFluidContacts(f, i))
                            + Len(ApproachingBoundaryContacts(f, i)) > 0
                /\ SolveStep(f) =>
                      fluids'[f].accelerations[i] = WithContributions(f, i)

\* C14: ArtificialViscosity::solve writes only the accelerations of the fluid
\* it is called for: positions, velocities, volumes and the module's parameters
\* stay, and accelerations[i] changes only by the contributions of particle i's
\* own contacts that are approaching and enabled (same-model fluid-fluid
\* contacts with a nonzero fluid coefficient, fluid-boundary contacts with a
\* nonzero boundary coefficient); with both coefficients zero or no contact
\* approaching it stays; apply_permutation changes nothing.
C14_ViscosityWritesAccelerations == [][ViscosityFrame]_vars

\* solve() was called for both fluids with fluid viscosity only: it has changed
\* the acceleration of a particle of the first fluid, which has an approaching
\* contact in its own fluid, and left that of the second fluid's particle,
\* whose fluid-fluid contact is with a particle of the first fluid
C14_Witness ==
    /\ viscosity_calls = [count |-> 2, last |-> "solve", fluid |-> 2]
    /\ artificial_viscosity.fluid_viscosity_coefficient # Zero
    /\ artificial_viscosity.boundary_viscosity_coefficient = Zero
    /\ fluids[1].accelerations[1] # entry[1].accelerations[1]
    /\ fluids[1].positions = entry[1].positions
    /\ fluids[1].velocities = entry[1].velocities
    /\ Len(fluids[2].positions) = 1
    /\ \E k \in 1..Len(fluid_fluid_contacts[2][1]) :
          /\ fluid_fluid_contacts[2][1][k].j_model = 1
          /\ fluid_fluid_contacts[2][1][k].weight > Zero
    /\ fluids[2].accelerations = entry[2].accelerations

====
